---- MODULE Spec2Model ----
(***************************************************************************)
(* A model of ftd2xx-rs (src/lib.rs): the safe wrapper over the FTDI D2XX  *)
(* driver.  The wrapper's state is the set of live Device values, each an  *)
(* enumeration index plus a copy of the driver's info node (flags and the  *)
(* native handle).  The driver is the environment: every native call       *)
(* returns a status and out-parameters chosen by the driver, constrained   *)
(* only by what the D2XX interface fixes (a null handle is rejected, a     *)
(* handle stays allocated until FT_Close succeeds on it, FT_Open hands out *)
(* a handle that is not allocated).                                        *)
(*                                                                         *)
(* Every public function of the wrapper is one action; the variable `last` *)
(* records what the action was called with, the native calls it made and   *)
(* what it returned, so that the properties can speak about a call.        *)
(***************************************************************************)
EXTENDS Integers, Sequences, FiniteSets, Bags, TLC

\* ---------------------------------------------------------------- bounds
MaxDevices == 2    \* the driver reports at most this many devices
MaxSessions == 2   \* the caller keeps at most this many Device values alive
MaxHandles == 2    \* the driver has this many distinct handle values
MaxStatus == 1     \* FT_STATUS values are 0..MaxStatus
MaxBuf == 1        \* caller buffers have at most this many bytes
MaxStreams == 1    \* Device values alive at once where the stream calls are followed
MaxCode == 60      \* the raw status codes translated are 0..MaxCode and the largest ones
MaxOver == 1       \* program-data texts are up to this much longer than a field's capacity
MaxFlag == 7       \* descriptor words are 0..MaxFlag and the largest ones
SerialBytes == 2   \* bytes of the SerialNumber array that are followed
DescrBytes == 2    \* bytes of the Description array that are followed

\* ------------------------------------------------------- program constants
FT_OK == 0         \* the driver's success status
NULL == 0          \* ptr::null_mut(), the handle of a closed session
ManufacturerLen == 32     \* manufacturer: [char; 32]
ManufacturerIdLen == 16   \* manufacturer_id: [char; 16]
DescriptionLen == 64      \* description: [char; 64]
SerialNumberLen == 16     \* serial_number: [char; 16]
CharSize == 4             \* size_of::<char>(): a Rust char is four bytes

Statuses == 0..MaxStatus
Failures == Statuses \ {FT_OK}
Handles == 1..MaxHandles
Indexes == 0..(MaxDevices - 1)
FlagVals == 0..3
Rates == {9600}

\* ------------------------------------------------------------ pure helpers
\* Option<FTError>: the empty sequence is None, <<status>> is Some(FTError).
FTError_from_raw(status) ==
    IF status = FT_OK THEN << >> ELSE << status >>

\* status_to_result with the error built from the Ok sentinel instead of
\* the status it was given.
status_to_result_loses_code(status) ==
    LET e == FTError_from_raw(status)
    IN  IF e = << >> THEN [ok |-> TRUE, err |-> FT_OK]
                     ELSE [ok |-> FALSE, err |-> FT_OK]

\* Result<()>: ok, or the error carrying the raw status.
status_to_result(status) ==
    LET e == FTError_from_raw(status)
    IN  IF e = << >> THEN [ok |-> TRUE, err |-> FT_OK]
                     ELSE [ok |-> FALSE, err |-> e[1]]

\* FT_DEVICE_LIST_INFO_NODE::default(): every field zero, the handle null.
DefaultNode == [Flags |-> 0, ftHandle |-> NULL]

Nodes == [Flags : FlagVals, ftHandle : {NULL} \cup Handles]
DeviceRecs == [index : Indexes, Flags : FlagVals, ftHandle : {NULL} \cup Handles]
NoDevice == [index |-> 0, Flags |-> 0, ftHandle |-> NULL]

\* A native call as the driver saw it.
Call(fn, handle, status) == [fn |-> fn, handle |-> handle, status |-> status]

\* A buffer of n zero bytes.
Zeroed(n) == [i \in 1..n |-> 0]

\* A [char; len] array as the memory the driver is pointed at: CharSize
\* bytes for each element, all '\0'.
CharArray(len) == Zeroed(CharSize * len)

\* An FTProgramData with nothing read into it (the request header of
\* `inner` is kept as the source writes it).
NoProgramData ==
    [manufacturer |-> << >>, manufacturer_id |-> << >>,
     description |-> << >>, serial_number |-> << >>,
     inner |-> [Signature1 |-> "0x00000000", Signature2 |-> "0xffffffff",
                Version |-> "0x00000005"]]

VARIABLES
    devices,   \* the live Device values the caller holds (a bag: two may be equal)
    drvOpen,   \* driver: the handles allocated by FT_Open and not yet closed
    last       \* the last call of the wrapper: arguments, native calls, result

vars == << devices, drvOpen, last >>

NoCall ==
    [op |-> "none", before |-> NoDevice, after |-> NoDevice,
     res |-> "Ok", err |-> FT_OK, val |-> 0, calls |-> << >>,
     bufBefore |-> << >>, bufAfter |-> << >>,
     st1 |-> FT_OK, n1 |-> 0, st2 |-> FT_OK, n2 |-> 0, nodes |-> << >>, ret |-> << >>,
     code |-> FT_OK, text |-> << >>, xfer |-> 0, prev |-> << "none", "Ok" >>,
     sent |-> << >>, data |-> NoProgramData, field |-> 0, flag |-> FALSE]

Init ==
    /\ devices = EmptyBag
    /\ drvOpen = {}
    /\ last = NoCall

\* The statuses the driver can answer a call on `handle` with: a null handle
\* is rejected; any other call succeeds or fails as the device decides.
StatusFor(handle) ==
    IF handle = NULL THEN Failures ELSE Statuses


\* -------------------------------------------------------------- scan_devices
\* The flags of the device the driver lists at position i (counted from 0):
\* the attached devices of the model differ in their flags, so that a
\* descriptor tells which position of the list it came from.
DeviceFlags(i) == (i + 1) % 4

\* What the driver can put in the info list: one node per attached device.
\* The node of a device that is open in this process may carry its handle;
\* no handle is reported for two devices.
DriverNodes(n) ==
    { [i \in 1..n |-> [Flags |-> DeviceFlags(i - 1), ftHandle |-> hs[i]]] :
        hs \in { f \in [1..n -> {NULL} \cup drvOpen] :
                   \A i, j \in 1..n : (i # j /\ f[i] # NULL) => f[i] # f[j] } }

\* info_nodes after FT_GetDeviceInfoList: n1 default nodes, the first ones
\* overwritten by the driver's list.
InfoBuffer(n1, nodes) ==
    [i \in 1..n1 |-> IF i <= Len(nodes) THEN nodes[i] ELSE DefaultNode]

\* Device { index, info: info_nodes[index] }
MakeDevice(index, info) ==
    [index |-> index, Flags |-> info.Flags, ftHandle |-> info.ftHandle]

\* The loop `for index in 0..num_devices`, num_devices being the count the
\* second native call wrote back.
BuildDevices(buffer, num_devices) ==
    [i \in 1..num_devices |-> MakeDevice(i - 1, buffer[i])]

\* scan_devices with the status of FT_GetDeviceInfoList left unchecked (the
\* `?` after the second native call missing).
scan_devices_get_unchecked(st1, n1, st2, n2, nodes) ==
    LET c1 == Call("FT_CreateDeviceInfoList", NULL, st1)
        c2 == Call("FT_GetDeviceInfoList", NULL, st2)
        r1 == status_to_result(st1)
    IN  IF ~r1.ok
        THEN [res |-> "Err", err |-> r1.err, ret |-> << >>, calls |-> << c1 >>]
        ELSE IF n1 > 0
        THEN [res |-> "Ok", err |-> FT_OK,
              ret |-> BuildDevices(InfoBuffer(n1, nodes), n1),
              calls |-> << c1, c2 >>]
        ELSE [res |-> "Ok", err |-> FT_OK, ret |-> << >>, calls |-> << c1 >>]

\* scan_devices with the test `num_devices > 0` dropped: the list is fetched
\* for a count of zero too.
scan_devices_always_gets(st1, n1, st2, n2, nodes) ==
    LET c1 == Call("FT_CreateDeviceInfoList", NULL, st1)
        c2 == Call("FT_GetDeviceInfoList", NULL, st2)
        r1 == status_to_result(st1)
        r2 == status_to_result(st2)
    IN  IF ~r1.ok
        THEN [res |-> "Err", err |-> r1.err, ret |-> << >>, calls |-> << c1 >>]
        ELSE IF ~r2.ok
        THEN [res |-> "Err", err |-> r2.err, ret |-> << >>, calls |-> << c1, c2 >>]
        ELSE IF n2 > n1
        THEN [res |-> "Panic", err |-> FT_OK, ret |-> << >>, calls |-> << c1, c2 >>]
        ELSE [res |-> "Ok", err |-> FT_OK,
              ret |-> BuildDevices(InfoBuffer(n1, nodes), n2),
              calls |-> << c1, c2 >>]

\* scan_devices() for the driver's answers: st1, n1 from
\* FT_CreateDeviceInfoList; st2, n2, nodes from FT_GetDeviceInfoList.
\* Indexing info_nodes past its length panics.
scan_devices(st1, n1, st2, n2, nodes) ==
    LET c1 == Call("FT_CreateDeviceInfoList", NULL, st1)
        c2 == Call("FT_GetDeviceInfoList", NULL, st2)
        r1 == status_to_result(st1)
        r2 == status_to_result(st2)
    IN  IF ~r1.ok
        THEN [res |-> "Err", err |-> r1.err, ret |-> << >>, calls |-> << c1 >>]
        ELSE IF n1 > 0
        THEN IF ~r2.ok
             THEN [res |-> "Err", err |-> r2.err, ret |-> << >>, calls |-> << c1, c2 >>]
             ELSE IF n2 > n1
             THEN [res |-> "Panic", err |-> FT_OK, ret |-> << >>, calls |-> << c1, c2 >>]
             ELSE [res |-> "Ok", err |-> FT_OK,
                   ret |-> BuildDevices(InfoBuffer(n1, nodes), n2),
                   calls |-> << c1, c2 >>]
        ELSE [res |-> "Ok", err |-> FT_OK, ret |-> << >>, calls |-> << c1 >>]

\* The Device values at the positions `keep` of a Vec, as a bag.
RECURSIVE KeptBag(_, _)
KeptBag(seq, keep) ==
    IF keep = {} THEN EmptyBag
    ELSE LET i == CHOOSE x \in keep : TRUE
         IN  SetToBag({seq[i]}) (+) KeptBag(seq, keep \ {i})

\* What a caller keeps of a Vec of n Device values: all of them, or one.
Keeps(n) == {1..n} \cup { {i} : i \in 1..n }

\* The caller keeps all the Device values the scan returned, or one of them,
\* if it has room for them below `limit`; the others it lets go.
ScanDone(limit, st1, n1, st2, n2, nodes, out) ==
    LET ret == out.ret
    IN  \E keep \in Keeps(Len(ret)) :
        /\ BagCardinality(devices) + Cardinality(keep) <= limit
        /\ devices' = devices (+) KeptBag(ret, keep)
        /\ last' = [NoCall EXCEPT !.op = "scan", !.res = out.res, !.err = out.err,
                                  !.val = Len(ret), !.calls = out.calls,
                                  !.st1 = st1, !.n1 = n1, !.st2 = st2, !.n2 = n2,
                                  !.nodes = nodes, !.ret = ret]
        /\ UNCHANGED drvOpen

\* The second native call is reached only when the first reports success
\* and a count above zero; its answers are drawn only then, and the list
\* only when the count fits the buffer.
ScanDevices(limit) ==
    \E st1 \in Statuses, n1 \in 0..MaxDevices :
        IF st1 # FT_OK \/ n1 = 0
        THEN ScanDone(limit, st1, n1, FT_OK, 0, << >>,
                      scan_devices(st1, n1, FT_OK, 0, << >>))
        ELSE \E st2 \in Statuses :
                IF st2 # FT_OK
                THEN ScanDone(limit, st1, n1, st2, 0, << >>,
                              scan_devices(st1, n1, st2, 0, << >>))
                ELSE \E n2 \in 0..MaxDevices :
                        IF n2 > n1
                        THEN ScanDone(limit, st1, n1, st2, n2, << >>,
                                      scan_devices(st1, n1, st2, n2, << >>))
                        ELSE \E nodes \in DriverNodes(n2) :
                                ScanDone(limit, st1, n1, st2, n2, nodes,
                                         scan_devices(st1, n1, st2, n2, nodes))

\* ------------------------------------------------------------------ Device
Held == BagToSet(devices)

\* What a method of Device did: the Device afterwards, the result and the
\* native calls.
Outcome(after, res, err, val, calls) ==
    [after |-> after, res |-> res, err |-> err, val |-> val, calls |-> calls]

\* Device::open with the status of FT_Open dropped: Ok(()) whatever the
\* driver answered.
open_status_dropped(d, st, h) ==
    Outcome(IF st = FT_OK THEN [d EXCEPT !.ftHandle = h] ELSE d,
            "Ok", FT_OK, 0, << Call("FT_Open", d.ftHandle, st) >>)

\* Device::open: FT_Open(self.index, &mut self.info.ftHandle).  The driver
\* stores the new handle h through the out-parameter when it answers FT_OK
\* and leaves it alone otherwise.
open(d, st, h) ==
    LET r == status_to_result(st)
        c == Call("FT_Open", d.ftHandle, st)
    IN  Outcome(IF st = FT_OK THEN [d EXCEPT !.ftHandle = h] ELSE d,
                IF r.ok THEN "Ok" ELSE "Err", r.err, 0, << c >>)

\* Device::close with the handle reset before the status is looked at.
close_resets_first(d, st) ==
    LET r == status_to_result(st)
        c == Call("FT_Close", d.ftHandle, st)
    IN  Outcome([d EXCEPT !.ftHandle = NULL], IF r.ok THEN "Ok" ELSE "Err",
                r.err, 0, << c >>)

\* Device::close: FT_Close(self.info.ftHandle)?, then the handle is reset.
close(d, st) ==
    LET r == status_to_result(st)
        c == Call("FT_Close", d.ftHandle, st)
    IN  IF ~r.ok
        THEN Outcome(d, "Err", r.err, 0, << c >>)
        ELSE Outcome([d EXCEPT !.ftHandle = NULL], "Ok", FT_OK, 0, << c >>)

\* Device::set_baud_rate: FT_SetBaudRate(self.info.ftHandle, rate).
set_baud_rate(d, rate, st) ==
    LET r == status_to_result(st)
        c == Call("FT_SetBaudRate", d.ftHandle, st)
    IN  Outcome(d, IF r.ok THEN "Ok" ELSE "Err", r.err, 0, << c >>)

\* io::Read::read with the test of the status inverted (is_err for is_ok).
read_test_inverted(d, st, bytes_read) ==
    LET c == Call("FT_Read", d.ftHandle, st)
    IN  IF ~status_to_result(st).ok
        THEN Outcome(d, "Ok", FT_OK, bytes_read, << c >>)
        ELSE Outcome(d, "IoErr", FT_OK, 0, << c >>)

\* io::Read::read with a transfer of no bytes taken for a failure.
read_zero_is_error(d, st, bytes_read) ==
    LET c == Call("FT_Read", d.ftHandle, st)
    IN  IF status_to_result(st).ok /\ bytes_read > 0
        THEN Outcome(d, "Ok", FT_OK, bytes_read, << c >>)
        ELSE Outcome(d, "IoErr", FT_OK, 0, << c >>)

\* io::Read::read: FT_Read(handle, buf, len, &mut bytes_read); Ok(bytes_read)
\* when the status is FT_OK, the generic io::Error otherwise.
read(d, st, bytes_read) ==
    LET c == Call("FT_Read", d.ftHandle, st)
    IN  IF status_to_result(st).ok
        THEN Outcome(d, "Ok", FT_OK, bytes_read, << c >>)
        ELSE Outcome(d, "IoErr", FT_OK, 0, << c >>)

\* io::Write::write: FT_Write(handle, buf, len, &mut bytes_written).
write(d, st, bytes_written) ==
    LET c == Call("FT_Write", d.ftHandle, st)
    IN  IF status_to_result(st).ok
        THEN Outcome(d, "Ok", FT_OK, bytes_written, << c >>)
        ELSE Outcome(d, "IoErr", FT_OK, 0, << c >>)

\* The caller's buffers: zero-filled, of every length up to MaxBuf.  The
\* device's bytes are 1, so a byte the driver stored shows.
Bufs == { [i \in 1..n |-> 0] : n \in 0..MaxBuf }

\* The caller's buffer after the driver stored n device bytes at its start.
Stored(buf, n) ==
    [i \in 1..Len(buf) |-> IF i <= n THEN 1 ELSE buf[i]]

\* The byte counts the driver can report for a transfer of `len` bytes that
\* it answers with status st: a failed call transfers nothing.
Transfers(st, len) ==
    IF st = FT_OK THEN 0..len ELSE {0}

MethodDone(op, d, out, bufBefore, bufAfter) ==
    /\ devices' = (devices (-) SetToBag({d})) (+) SetToBag({out.after})
    /\ last' = [NoCall EXCEPT !.op = op, !.before = d,
                              !.after = out.after, !.res = out.res, !.err = out.err,
                              !.val = out.val, !.calls = out.calls,
                              !.bufBefore = bufBefore, !.bufAfter = bufAfter]

\* FT_Open succeeds or fails as the driver decides (the device at the index
\* may be absent, or a different device from the one scanned); it can only
\* succeed while a handle is left to give out.
OpenStatuses ==
    IF Handles \subseteq drvOpen THEN Failures ELSE Statuses

Open ==
    \E d \in Held : \E st \in OpenStatuses :
        IF st = FT_OK
        THEN \E h \in Handles \ drvOpen :
                /\ MethodDone("open", d, open(d, st, h), << >>, << >>)
                /\ drvOpen' = drvOpen \cup {h}
        ELSE /\ MethodDone("open", d, open(d, st, NULL), << >>, << >>)
             /\ UNCHANGED drvOpen

Close ==
    \E d \in Held : \E st \in StatusFor(d.ftHandle) :
        /\ MethodDone("close", d, close(d, st), << >>, << >>)
        /\ drvOpen' = IF st = FT_OK THEN drvOpen \ {d.ftHandle} ELSE drvOpen

SetBaudRate ==
    \E d \in Held : \E rate \in Rates : \E st \in StatusFor(d.ftHandle) :
        /\ MethodDone("set_baud_rate", d, set_baud_rate(d, rate, st), << >>, << >>)
        /\ UNCHANGED drvOpen

\* A stream call: as MethodDone, and the count the driver reported is kept.
IoDone(op, d, out, bufBefore, bufAfter, n) ==
    /\ devices' = (devices (-) SetToBag({d})) (+) SetToBag({out.after})
    /\ last' = [NoCall EXCEPT !.op = op, !.before = d,
                              !.after = out.after, !.res = out.res, !.err = out.err,
                              !.val = out.val, !.calls = out.calls,
                              !.bufBefore = bufBefore, !.bufAfter = bufAfter,
                              !.xfer = n]

Read ==
    \E d \in Held : \E buf \in Bufs : \E st \in StatusFor(d.ftHandle) :
    \E n \in Transfers(st, Len(buf)) :
        /\ IoDone("read", d, read(d, st, n), buf, Stored(buf, n), n)
        /\ UNCHANGED drvOpen

Write ==
    \E d \in Held : \E buf \in Bufs : \E st \in StatusFor(d.ftHandle) :
    \E n \in Transfers(st, Len(buf)) :
        /\ IoDone("write", d, write(d, st, n), buf, buf, n)
        /\ UNCHANGED drvOpen

\* Device::get_bitmode with the status of FT_GetBitMode dropped: the initial
\* `bitmode = 0` is returned when the driver refused.
get_bitmode_status_dropped(d, st, bitmode) ==
    Outcome(d, "Ok", FT_OK, IF st = FT_OK THEN bitmode ELSE 0,
            << Call("FT_GetBitMode", d.ftHandle, st) >>)

\* Device::get_bitmode: FT_GetBitMode(self.info.ftHandle, &mut bitmode)?,
\* then Ok(bitmode).
get_bitmode(d, st, bitmode) ==
    LET r == status_to_result(st)
        c == Call("FT_GetBitMode", d.ftHandle, st)
    IN  IF ~r.ok
        THEN Outcome(d, "Err", r.err, 0, << c >>)
        ELSE Outcome(d, "Ok", FT_OK, bitmode, << c >>)

\* The bit modes the driver reports.
BitModes == {0, 1}

GetBitMode ==
    \E d \in Held : \E st \in StatusFor(d.ftHandle) :
    \E bitmode \in IF st = FT_OK THEN BitModes ELSE {0} :
        /\ MethodDone("get_bitmode", d, get_bitmode(d, st, bitmode), << >>, << >>)
        /\ UNCHANGED drvOpen

\* io::Write::flush with a native call made on the handle (a flush that
\* forwards to the driver and reports its status).
flush_forwards(d) ==
    Outcome(d, IF d.ftHandle = NULL THEN "IoErr" ELSE "Ok", FT_OK, 0,
            << Call("FT_Purge", d.ftHandle, IF d.ftHandle = NULL THEN 1 ELSE FT_OK) >>)

\* io::Write::flush: Ok(()).
flush(d) == Outcome(d, "Ok", FT_OK, 0, << >>)

\* flush remembers which call it came after.
Flush ==
    \E d \in Held :
        /\ devices' = (devices (-) SetToBag({d})) (+) SetToBag({flush(d).after})
        /\ last' = [NoCall EXCEPT !.op = "flush", !.before = d,
                                  !.after = flush(d).after, !.res = flush(d).res,
                                  !.calls = flush(d).calls,
                                  !.prev = << last.op, last.res >>]
        /\ UNCHANGED drvOpen

\* A Device goes out of scope.  Device has no Drop implementation: its
\* fields are plain data and no native call is made.
Drop ==
    \E d \in Held :
        /\ devices' = devices (-) SetToBag({d})
        /\ last' = [NoCall EXCEPT !.op = "drop", !.before = d, !.after = d]
        /\ UNCHANGED drvOpen

\* The lifecycle of the Device values of a caller that holds up to
\* MaxSessions of them.
Next ==
    \/ ScanDevices(MaxSessions)
    \/ Open
    \/ Close
    \/ Drop

Spec == Init /\ [][Next]_vars

\* The stream and configuration calls, on the Device values of a caller that
\* holds up to MaxStreams of them.
NextIO ==
    \/ ScanDevices(MaxStreams)
    \/ Open
    \/ Close
    \/ Drop
    \/ SetBaudRate
    \/ GetBitMode
    \/ Read
    \/ Write
    \/ Flush

SpecIO == Init /\ [][NextIO]_vars


\* ------------------------------------------------------ FTError and its text
\* The raw status codes the translator is followed on: the small ones, and
\* the largest values the 32-bit FT_STATUS is checked with here.
Codes == (0..MaxCode) \cup {2147483646, 2147483647}

\* FTError::raw: self.status as u32.  FT_STATUS is 32 bits wide and
\* unsigned, so the cast keeps the value.
FTError_raw(e) == e[1]

\* A text is the sequence of its characters.
Digits == << "0", "1", "2", "3", "4", "5", "6", "7", "8", "9" >>

\* Display of a u32: its decimal digits, the most significant first, with
\* no sign, padding or leading zero.
RECURSIVE DisplayU32(_)
DisplayU32(n) ==
    IF n < 10 THEN << Digits[n + 1] >>
    ELSE DisplayU32(n \div 10) \o << Digits[(n % 10) + 1] >>

\* The literal of the format string "FT_STATUS: {}".
StatusPrefix == << "F", "T", "_", "S", "T", "A", "T", "U", "S", ":", " " >>

\* Display with the argument of the format string left out.
FTError_fmt_no_code(e) == StatusPrefix

\* impl fmt::Display for FTError: write!(f, "FT_STATUS: {}", self.raw()).
FTError_fmt(e) == StatusPrefix \o DisplayU32(FTError_raw(e))

\* status_to_result(code), called on its own.
Translate ==
    \E code \in Codes :
        /\ last' = [NoCall EXCEPT !.op = "status_to_result", !.code = code,
                                  !.res = IF status_to_result(code).ok THEN "Ok" ELSE "Err",
                                  !.err = status_to_result(code).err]
        /\ UNCHANGED << devices, drvOpen >>

\* The FTError of a failed call, formatted with Display.
Display ==
    \E code \in Codes :
        /\ ~status_to_result(code).ok
        /\ last' = [NoCall EXCEPT !.op = "fmt", !.code = code, !.res = "Ok",
                                  !.err = status_to_result(code).err,
                                  !.text = FTError_fmt(<< status_to_result(code).err >>)]
        /\ UNCHANGED << devices, drvOpen >>

NextStatus ==
    \/ Translate
    \/ Display

SpecStatus == Init /\ [][NextStatus]_vars


\* ------------------------------------------------------------ FTProgramData
\* The four text fields, in the order of the struct.
Fields == 1..4
FieldLen == << ManufacturerLen, ManufacturerIdLen, DescriptionLen, SerialNumberLen >>

\* A text of n letters (no NUL among them); the letters differ with the
\* position, so that a text cut short differs from the whole one.
Letters(n) == [i \in 1..n |-> 65 + ((i - 1) % 26)]

\* The lengths of text the device's store holds for field f: none, and the
\* lengths around the field's element count.
TextLens(f) == {0} \cup ((FieldLen[f] - 1)..(FieldLen[f] + MaxOver))

\* What the store holds for the four fields: field f has n letters, the
\* others a short text.
StoreTexts(f, n) == [g \in Fields |-> IF g = f THEN Letters(n) ELSE Letters(g)]

\* The driver copies a text and its terminator to the address it was given:
\* FT_PROGRAM_DATA carries the four pointers and no length.  (The texts of
\* the model are shorter than the memory behind the pointer.)
EE_Store(mem, text) ==
    [i \in 1..Len(mem) |-> IF i <= Len(text) THEN text[i]
                           ELSE IF i = Len(text) + 1 THEN 0 ELSE mem[i]]

\* CStr::from_ptr(p): the bytes before the first NUL.
CStr_from_ptr(mem) ==
    LET nul == CHOOSE k \in 1..Len(mem) :
                   mem[k] = 0 /\ \A j \in 1..(k - 1) : mem[j] # 0
    IN  SubSeq(mem, 1, nul - 1)

\* CStr::to_str succeeds on UTF-8.  The bytes of the model are the ASCII
\* ones and 0xFF, which is in no UTF-8 sequence.
IsUtf8(bytes) == \A i \in 1..Len(bytes) : bytes[i] < 128

\* CStr::from_ptr(p).to_str().unwrap()
to_str_unwrap(mem) ==
    IF IsUtf8(CStr_from_ptr(mem))
    THEN [res |-> "Ok", text |-> CStr_from_ptr(mem)]
    ELSE [res |-> "Panic", text |-> << >>]

\* The accessors of FTProgramData.
get_manufacturer(data) == to_str_unwrap(data.manufacturer)
get_manufacturer_id(data) == to_str_unwrap(data.manufacturer_id)
FTProgramData_get_description(data) == to_str_unwrap(data.description)
FTProgramData_get_serial_number(data) == to_str_unwrap(data.serial_number)

\* What query_program_data did: as Outcome, and the FTProgramData.
DataOutcome(after, res, err, calls, data) ==
    [after |-> after, res |-> res, err |-> err, calls |-> calls, data |-> data]

\* query_program_data with a check of the handle in front: a closed session
\* is refused without a native call.
query_program_data_validates(d, st, texts) ==
    LET r == status_to_result(st)
        c == Call("FT_EE_Read", d.ftHandle, st)
        data == [NoProgramData EXCEPT
                    !.manufacturer = EE_Store(CharArray(ManufacturerLen), texts[1]),
                    !.manufacturer_id = EE_Store(CharArray(ManufacturerIdLen), texts[2]),
                    !.description = EE_Store(CharArray(DescriptionLen), texts[3]),
                    !.serial_number = EE_Store(CharArray(SerialNumberLen), texts[4])]
    IN  IF d.ftHandle = NULL THEN DataOutcome(d, "Err", r.err, << >>, NoProgramData)
        ELSE IF ~r.ok THEN DataOutcome(d, "Err", r.err, << c >>, NoProgramData)
        ELSE DataOutcome(d, "Ok", FT_OK, << c >>, data)

\* Device::query_program_data: four zeroed [char; N] arrays, their addresses
\* put in `inner`, FT_EE_Read(self.info.ftHandle, &mut data.inner)?, then
\* Ok(data).  The driver stores the texts when it answers FT_OK.  Moving
\* `data` out copies the arrays byte for byte; the accessors read the
\* arrays, not the pointers of `inner`.
query_program_data(d, st, texts) ==
    LET r == status_to_result(st)
        c == Call("FT_EE_Read", d.ftHandle, st)
        data == [NoProgramData EXCEPT
                    !.manufacturer = EE_Store(CharArray(ManufacturerLen), texts[1]),
                    !.manufacturer_id = EE_Store(CharArray(ManufacturerIdLen), texts[2]),
                    !.description = EE_Store(CharArray(DescriptionLen), texts[3]),
                    !.serial_number = EE_Store(CharArray(SerialNumberLen), texts[4])]
    IN  IF ~r.ok THEN DataOutcome(d, "Err", r.err, << c >>, NoProgramData)
        ELSE DataOutcome(d, "Ok", FT_OK, << c >>, data)

QueryProgramData ==
    \E d \in Held : \E st \in StatusFor(d.ftHandle) :
    \E f \in Fields : \E n \in IF st = FT_OK THEN TextLens(f) ELSE {0} :
        LET out == query_program_data(d, st, StoreTexts(f, n))
        IN  /\ devices' = (devices (-) SetToBag({d})) (+) SetToBag({out.after})
            /\ last' = [NoCall EXCEPT !.op = "query_program_data", !.before = d,
                                      !.after = out.after, !.res = out.res,
                                      !.err = out.err, !.calls = out.calls,
                                      !.sent = StoreTexts(f, n), !.data = out.data,
                                      !.field = f]
            /\ UNCHANGED drvOpen

\* An accessor is called on the FTProgramData the last query returned (or
\* the last accessor read).
HasData ==
    /\ last.op \in {"query_program_data", "get_manufacturer", "get_manufacturer_id",
                    "FTProgramData::get_description", "FTProgramData::get_serial_number"}
    /\ last.data # NoProgramData

Got(op, got) ==
    /\ HasData
    /\ last' = [last EXCEPT !.op = op, !.res = got.res, !.text = got.text]
    /\ UNCHANGED << devices, drvOpen >>

GetManufacturer == Got("get_manufacturer", get_manufacturer(last.data))
GetManufacturerId == Got("get_manufacturer_id", get_manufacturer_id(last.data))
GetDataDescription ==
    Got("FTProgramData::get_description", FTProgramData_get_description(last.data))
GetDataSerialNumber ==
    Got("FTProgramData::get_serial_number", FTProgramData_get_serial_number(last.data))

\* The caller holds the Device of one scanned device.
InitData ==
    /\ drvOpen = {}
    /\ \E nodes \in DriverNodes(1) :
          devices = SetToBag({BuildDevices(InfoBuffer(1, nodes), 1)[1]})
    /\ last = NoCall

\* Program data is queried from that Device, open or closed, and read back.
NextData ==
    \/ Open
    \/ Close
    \/ QueryProgramData
    \/ GetManufacturer
    \/ GetManufacturerId
    \/ GetDataDescription
    \/ GetDataSerialNumber

SpecData == InitData /\ [][NextData]_vars


\* ------------------------------------------------- the descriptor of a Device
\* Flags, Type, ID and LocId are u32 words the driver writes.
Words == (0..MaxFlag) \cup {2147483644, 2147483645, 2147483646, 2147483647}

\* The bytes the driver leaves in SerialNumber and Description: NUL, a
\* letter, and a byte that is in no UTF-8 text.
Bytes == {0, 65, 255}

\* A descriptor as the driver can fill it.  One part of it is varied at a
\* time: the flags, the other words, or the two texts.
PlainNode ==
    [Flags |-> 0, Type |-> 0, ID |-> 0, LocId |-> 0,
     SerialNumber |-> Zeroed(SerialBytes), Description |-> Zeroed(DescrBytes),
     ftHandle |-> NULL]

InfoNodes ==
    { [PlainNode EXCEPT !.Flags = w] : w \in Words }
    \cup { [PlainNode EXCEPT !.Type = w, !.ID = MaxFlag - (w % (MaxFlag + 1)),
                             !.LocId = w \div 2] : w \in Words }
    \cup { [PlainNode EXCEPT !.SerialNumber = s, !.Description = t] :
             s \in [1..SerialBytes -> Bytes], t \in [1..DescrBytes -> Bytes] }

\* Device { index, info } with every field of the info node.
InfoDevice(index, info) ==
    [index |-> index, Flags |-> info.Flags, Type |-> info.Type, ID |-> info.ID,
     LocId |-> info.LocId, SerialNumber |-> info.SerialNumber,
     Description |-> info.Description, ftHandle |-> info.ftHandle]

\* a & b on unsigned words.
RECURSIVE BitAnd(_, _)
BitAnd(a, b) ==
    IF a = 0 \/ b = 0 THEN 0
    ELSE (a % 2) * (b % 2) + 2 * BitAnd(a \div 2, b \div 2)

\* What an accessor did: the Device afterwards and what it returned (a
\* word, a bool or a text), or a panic.
InfoOutcome(after, res, val, flag, text) ==
    [after |-> after, res |-> res, val |-> val, flag |-> flag, text |-> text]

\* is_open answering from the handle, not from the flags.
is_open_by_handle(d) == InfoOutcome(d, "Ok", 0, d.ftHandle # NULL, << >>)

\* self.info.Flags & 0x1 != 0
is_open(d) == InfoOutcome(d, "Ok", 0, BitAnd(d.Flags, 1) # 0, << >>)

\* self.info.Flags & 0x2 != 0
is_high_speed(d) == InfoOutcome(d, "Ok", 0, BitAnd(d.Flags, 2) # 0, << >>)

get_flags(d) == InfoOutcome(d, "Ok", d.Flags, FALSE, << >>)
get_type(d) == InfoOutcome(d, "Ok", d.Type, FALSE, << >>)
get_id(d) == InfoOutcome(d, "Ok", d.ID, FALSE, << >>)
get_local_id(d) == InfoOutcome(d, "Ok", d.LocId, FALSE, << >>)
get_handle(d) == InfoOutcome(d, "Ok", d.ftHandle, FALSE, << >>)

\* CStr::from_ptr(p).to_str().unwrap() on memory that may hold no NUL: the
\* read then runs off the end of it, which is undefined; it returns some
\* text or panics.
TextOutcomes(d, mem) ==
    IF \E k \in 1..Len(mem) : mem[k] = 0
    THEN { InfoOutcome(d, to_str_unwrap(mem).res, 0, FALSE, to_str_unwrap(mem).text) }
    ELSE { InfoOutcome(d, "Panic", 0, FALSE, << >>) }
         \cup { InfoOutcome(d, "Ok", 0, FALSE, mem) : ok \in {TRUE} \cap {IsUtf8(mem)} }

\* Device::get_serial_number: the text at SerialNumber.  Description is the
\* next field of the node, so a SerialNumber with no NUL is read on into it.
get_serial_number(d) == TextOutcomes(d, d.SerialNumber \o d.Description)

\* Device::get_description: the text at Description.
get_description(d) == TextOutcomes(d, d.Description)

InfoDone(op, d, out) ==
    /\ devices' = (devices (-) SetToBag({d})) (+) SetToBag({out.after})
    /\ last' = [NoCall EXCEPT !.op = op, !.before = d, !.after = out.after,
                              !.res = out.res, !.val = out.val, !.flag = out.flag,
                              !.text = out.text]
    /\ UNCHANGED drvOpen

IsOpen == \E d \in Held : InfoDone("is_open", d, is_open(d))
IsHighSpeed == \E d \in Held : InfoDone("is_high_speed", d, is_high_speed(d))
GetFlags == \E d \in Held : InfoDone("get_flags", d, get_flags(d))
GetType == \E d \in Held : InfoDone("get_type", d, get_type(d))
GetId == \E d \in Held : InfoDone("get_id", d, get_id(d))
GetLocalId == \E d \in Held : InfoDone("get_local_id", d, get_local_id(d))
GetHandle == \E d \in Held : InfoDone("get_handle", d, get_handle(d))
GetSerialNumber ==
    \E d \in Held : \E out \in get_serial_number(d) :
        InfoDone("get_serial_number", d, out)
GetDescription ==
    \E d \in Held : \E out \in get_description(d) :
        InfoDone("get_description", d, out)

\* The caller holds the Device of one scanned device, whose descriptor the
\* driver filled.
InitInfo ==
    /\ \E info \in InfoNodes : devices = SetToBag({InfoDevice(0, info)})
    /\ drvOpen = {}
    /\ last = NoCall

NextInfo ==
    \/ Open
    \/ Close
    \/ IsOpen
    \/ IsHighSpeed
    \/ GetFlags
    \/ GetType
    \/ GetId
    \/ GetLocalId
    \/ GetHandle
    \/ GetSerialNumber
    \/ GetDescription

SpecInfo == InitInfo /\ [][NextInfo]_vars

\* ------------------------------------------------------------ properties
\* The native calls of the last call of the wrapper.
LastCalls == { last.calls[k] : k \in 1..Len(last.calls) }

\* The last call was method `op` of a Device.
Did(op) == last.op = op

\* The shape of the state: the caller holds Device values, the driver has
\* handles allocated, and a scan's Vec holds position i - 1 at place i only
\* when that many nodes fitted the buffer.
TypeOK ==
    /\ Held \subseteq DeviceRecs
    /\ drvOpen \subseteq Handles
    /\ last.before \in DeviceRecs /\ last.after \in DeviceRecs
    /\ last.res \in {"Ok", "Err", "IoErr", "Panic"}
    /\ last.err \in Statuses
    /\ \A k \in 1..Len(last.nodes) : last.nodes[k] \in Nodes
    /\ \A k \in 1..Len(last.ret) : last.ret[k] \in DeviceRecs

\* C1: read(buf) and write(buf) on a session whose handle is null return a
\* failure and leave the caller's buffer exactly as it was before the call.
C1_ClosedStreamFails ==
    ((Did("read") \/ Did("write")) /\ last.before.ftHandle = NULL)
        => /\ last.res = "IoErr"
           /\ last.bufAfter = last.bufBefore
           /\ last.after = last.before

\* A read into a buffer with room for data, on a session with a null handle.
C1_Witness ==
    /\ Did("read")
    /\ last.before.ftHandle = NULL
    /\ Len(last.bufBefore) > 0
    /\ last.res = "IoErr"

\* C2 (as claimed): an open() on a session that already holds a non-null
\* handle does not succeed and does not replace the stored handle.
C2_OpenRequiresClosed ==
    (Did("open") /\ last.before.ftHandle # NULL)
        => /\ last.res = "Err"
           /\ last.after.ftHandle = last.before.ftHandle

\* C3 (as claimed): close() on a session with a null handle does not invoke
\* the native close with the null handle, and leaves the session unchanged.
C3_CloseNeverOnNull ==
    (Did("close") /\ last.before.ftHandle = NULL)
        => /\ \A c \in LastCalls : ~(c.fn = "FT_Close" /\ c.handle = NULL)
           /\ last.after = last.before

\* C4: an open() on a closed session that the native open answers with a
\* non-zero status returns that error; the handle is still null and the
\* session (index, descriptor, handle) is what it was before the call.
C4_FailedOpenStaysClosed ==
    (Did("open") /\ last.before.ftHandle = NULL
        /\ \E c \in LastCalls : c.fn = "FT_Open" /\ c.status # FT_OK)
        => /\ last.res = "Err"
           /\ \E c \in LastCalls : c.fn = "FT_Open" /\ c.status = last.err
           /\ last.after.ftHandle = NULL
           /\ last.after = last.before
           /\ BagIn(last.before, devices)

\* A failed open() of a closed session.
C4_Witness ==
    /\ Did("open")
    /\ last.before.ftHandle = NULL
    /\ last.calls = << Call("FT_Open", NULL, last.err) >>
    /\ last.err # FT_OK
    /\ last.res = "Err"

\* C5: close() on a session holding a non-null handle resets the handle to
\* null exactly when the native close reports success; when it reports
\* failure, close() returns that error and the stored handle is unchanged.
C5_CloseResetsIffSuccess ==
    (Did("close") /\ last.before.ftHandle # NULL)
        => \E st \in Statuses :
            /\ last.calls = << Call("FT_Close", last.before.ftHandle, st) >>
            /\ (last.after.ftHandle = NULL) <=> (st = FT_OK)
            /\ st = FT_OK => last.res = "Ok"
            /\ st # FT_OK => /\ last.res = "Err"
                             /\ last.err = st
                             /\ last.after = last.before
            /\ last.after.index = last.before.index
            /\ last.after.Flags = last.before.Flags
            /\ BagIn(last.after, devices)

\* A close() that the driver refused: the session keeps its handle, which
\* the driver still has allocated, so that the close can be tried again.
C5_Witness ==
    /\ Did("close")
    /\ last.before.ftHandle # NULL
    /\ last.res = "Err"
    /\ last.after.ftHandle = last.before.ftHandle
    /\ last.after.ftHandle \in drvOpen
    /\ BagIn(last.after, devices)

\* C6 (as claimed): when a session that holds a non-null handle ceases to
\* exist, the native close has been invoked for that handle: the driver no
\* longer has it allocated.
C6_DropReleasesHandle ==
    (Did("drop") /\ last.before.ftHandle # NULL)
        => last.before.ftHandle \notin drvOpen

\* C7 (as claimed): every session scan_devices returns has a null handle,
\* and no two live sessions hold the same non-null handle.
C7_ExclusiveHandle ==
    /\ Did("scan") => \A i \in 1..Len(last.ret) : last.ret[i].ftHandle = NULL
    /\ \A d \in Held :
         d.ftHandle # NULL
            => /\ CopiesIn(d, devices) = 1
               /\ \A e \in Held \ {d} : e.ftHandle # d.ftHandle

\* C8 (as claimed): when the first native call reports n1 devices and both
\* native calls succeed, scan_devices returns exactly n1 sessions, the one
\* at position i with index i and descriptor i of the native list.
C8_ScanReturnsAll ==
    (Did("scan") /\ \A c \in LastCalls : c.status = FT_OK)
        => /\ last.res = "Ok"
           /\ Len(last.ret) = last.n1
           /\ \A i \in 1..Len(last.ret) :
                /\ last.ret[i].index = i - 1
                /\ i <= Len(last.nodes)
                /\ last.ret[i].Flags = last.nodes[i].Flags
                /\ last.ret[i].ftHandle = last.nodes[i].ftHandle

\* C9: if either native call of scan_devices reports a non-zero status, the
\* scan returns that error and no sessions; sessions are returned only when
\* both calls were made and both succeeded.
C9_ScanNoPartialResult ==
    Did("scan")
        => /\ \A c \in LastCalls :
                c.status # FT_OK
                    => /\ last.res = "Err"
                       /\ last.err = c.status
                       /\ last.ret = << >>
           /\ last.ret # << >>
                => /\ last.res = "Ok"
                   /\ Len(last.calls) = 2
                   /\ \A c \in LastCalls : c.status = FT_OK
           /\ last.res # "Ok" => last.ret = << >>

\* A scan whose first call succeeded with a count and whose second failed.
C9_Witness ==
    /\ Did("scan")
    /\ last.n1 > 0
    /\ Len(last.calls) = 2
    /\ last.calls[1].status = FT_OK
    /\ last.calls[2].status # FT_OK
    /\ last.res = "Err"

\* C10: when the first native call succeeds with a count of 0, scan_devices
\* returns success with an empty sequence and makes no second native call.
C10_ScanOfNothing ==
    (Did("scan") /\ last.st1 = FT_OK /\ last.n1 = 0)
        => /\ last.res = "Ok"
           /\ last.ret = << >>
           /\ last.calls = << Call("FT_CreateDeviceInfoList", NULL, FT_OK) >>

\* A scan that found no device.
C10_Witness ==
    /\ Did("scan")
    /\ last.st1 = FT_OK
    /\ last.n1 = 0
    /\ last.res = "Ok"
    /\ last.val = 0

\* C20 (as claimed): for every pair of counts the two native calls report,
\* the construction loop of scan_devices stays inside the buffer sized by
\* the first count, and the scan returns without panicking.
C20_ScanStaysInBuffer ==
    Did("scan")
        => /\ last.res # "Panic"
           /\ Len(last.ret) <= last.n1

\* C11: the status translator returns success exactly when the raw code is
\* the OK sentinel 0, and for every other code an error carrying that same
\* code; translating changes nothing else.
C11_TranslateStatus ==
    Did("status_to_result")
        => /\ (last.res = "Ok") <=> (last.code = 0)
           /\ last.code # 0 => (last.res = "Err" /\ last.err = last.code)
           /\ devices = EmptyBag /\ drvOpen = {}

\* A failure code translated: one of the largest 32-bit values followed.
C11_Witness ==
    /\ Did("status_to_result")
    /\ last.code = 2147483647
    /\ last.res = "Err"
    /\ last.err = 2147483647

\* The digits of a text, as a number: each character must be a decimal
\* digit, and the first is not "0" unless it is the only one.
DigitValue(ch) == (CHOOSE k \in 1..10 : Digits[k] = ch) - 1

IsDecimal(t) ==
    /\ Len(t) > 0
    /\ \A k \in 1..Len(t) : \E j \in 1..10 : Digits[j] = t[k]
    /\ Len(t) > 1 => t[1] # "0"

RECURSIVE DecimalValue(_)
DecimalValue(t) ==
    IF Len(t) = 0 THEN 0
    ELSE 10 * DecimalValue(SubSeq(t, 1, Len(t) - 1)) + DigitValue(t[Len(t)])

\* A text is `prefix` followed by the decimal numeral of `code`.
IsPrefixThenCode(t, prefix, code) ==
    /\ Len(t) > Len(prefix)
    /\ SubSeq(t, 1, Len(prefix)) = prefix
    /\ IsDecimal(SubSeq(t, Len(prefix) + 1, Len(t)))
    /\ DecimalValue(SubSeq(t, Len(prefix) + 1, Len(t))) = code

\* C12 (as claimed): the Display text of the error carrying a non-zero
\* code c is exactly "STATUS: " followed by the decimal code.
C12_DisplayStatus ==
    Did("fmt")
        => IsPrefixThenCode(last.text, << "S", "T", "A", "T", "U", "S", ":", " " >>,
                            last.code)

\* C12 (amended): the Display text of the error carrying a non-zero code c
\* is exactly "FT_STATUS: " followed by the decimal code.
C12_DisplayFtStatus ==
    Did("fmt")
        => IsPrefixThenCode(last.text,
                            << "F", "T", "_", "S", "T", "A", "T", "U", "S", ":", " " >>,
                            last.code)

\* The text of a code of several digits.
C12_Witness ==
    /\ Did("fmt")
    /\ last.code = 42
    /\ last.text = << "F", "T", "_", "S", "T", "A", "T", "U", "S", ":", " ", "4", "2" >>

\* C13: set_baud_rate(rate) and get_bitmode() on a session whose handle is
\* null return a failure, do not panic, and leave the session unchanged.
C13_ClosedConfigFails ==
    ((Did("set_baud_rate") \/ Did("get_bitmode")) /\ last.before.ftHandle = NULL)
        => /\ last.res = "Err"
           /\ last.err # FT_OK
           /\ last.after = last.before
           /\ BagIn(last.before, devices)

\* get_bitmode() on a session with a null handle.
C13_Witness ==
    /\ Did("get_bitmode")
    /\ last.before.ftHandle = NULL
    /\ last.res = "Err"
    /\ last.calls = << Call("FT_GetBitMode", NULL, last.err) >>

\* C14: on a session with a handle, read(buf) and write(buf) return Ok(n),
\* n the byte count the native call reported, whenever the native status is
\* success (n = 0 included), and the generic I/O failure whenever it is
\* not; the session's handle and descriptor are unchanged.
C14_StreamResult ==
    ((Did("read") \/ Did("write")) /\ last.before.ftHandle # NULL)
        => /\ Len(last.calls) = 1
           /\ last.calls[1].handle = last.before.ftHandle
           /\ last.calls[1].status = FT_OK
                => (last.res = "Ok" /\ last.val = last.xfer)
           /\ last.calls[1].status # FT_OK => last.res = "IoErr"
           /\ last.after = last.before
           /\ BagIn(last.before, devices)

\* A read into a buffer with room that the driver answered with success
\* and no bytes.
C14_Witness ==
    /\ Did("read")
    /\ last.before.ftHandle # NULL
    /\ Len(last.bufBefore) > 0
    /\ last.calls[1].status = FT_OK
    /\ last.xfer = 0
    /\ last.res = "Ok"
    /\ last.val = 0

\* C19: flush() returns success in every session state, makes no native
\* call and leaves the session unchanged.
C19_FlushNoOp ==
    Did("flush")
        => /\ last.res = "Ok"
           /\ last.calls = << >>
           /\ last.after = last.before
           /\ BagIn(last.before, devices)

\* A flush on a closed session right after a write that failed.
C19_Witness ==
    /\ Did("flush")
    /\ last.before.ftHandle = NULL
    /\ last.prev = << "write", "IoErr" >>
    /\ last.res = "Ok"

\* A text cut to what a field of `cap` bytes holds with its terminator.
Truncated(text, cap) ==
    IF Len(text) > cap - 1 THEN SubSeq(text, 1, cap - 1) ELSE text

\* The accessor calls and the field each reads.
DataAccessors ==
    << "get_manufacturer", "get_manufacturer_id",
       "FTProgramData::get_description", "FTProgramData::get_serial_number" >>

\* C17: after the native program-data read wrote known texts into the four
\* fields, each accessor returns the text written to its field, cut to the
\* field's capacity of 32/16/64/16 bytes with the terminator when it is
\* longer (text lengths capacity-1, capacity and capacity+1 included).
C17_ProgramDataRoundTrip ==
    \A f \in Fields :
        Did(DataAccessors[f])
            => /\ last.res = "Ok"
               /\ last.text = Truncated(last.sent[f], FieldLen[f])

\* C18: query_program_data makes the native read on the session's handle
\* whatever the lifecycle state (a null handle included), returns Err with
\* the native status when it is not zero and a ProgramData otherwise, and
\* leaves the session unchanged.
C18_QuerySurfacesStatus ==
    Did("query_program_data")
        => /\ Len(last.calls) = 1
           /\ last.calls[1].fn = "FT_EE_Read"
           /\ last.calls[1].handle = last.before.ftHandle
           /\ last.calls[1].status # FT_OK
                => (last.res = "Err" /\ last.err = last.calls[1].status)
           /\ last.calls[1].status = FT_OK
                => (last.res = "Ok" /\ last.data # NoProgramData)
           /\ last.after = last.before
           /\ BagIn(last.before, devices)

\* A query on a closed session: the native read was made and refused.
C18_Witness ==
    /\ Did("query_program_data")
    /\ last.before.ftHandle = NULL
    /\ last.calls = << Call("FT_EE_Read", NULL, last.err) >>
    /\ last.res = "Err"
    /\ last.err # FT_OK

\* The accessors of the descriptor.
InfoAccessors ==
    {"get_flags", "get_type", "get_id", "get_local_id", "get_serial_number",
     "get_description", "get_handle"}

\* C15: get_flags, get_type, get_id, get_local_id, get_serial_number,
\* get_description and get_handle return without failing or panicking for
\* every content of the descriptor (any bytes in SerialNumber and
\* Description) in every lifecycle state, and leave the session unchanged.
C15_AccessorsNeverFail ==
    last.op \in InfoAccessors
        => /\ last.res = "Ok"
           /\ last.after = last.before
           /\ BagIn(last.before, devices)

\* C16: is_open() is (flags & 1 != 0) and is_high_speed() is
\* (flags & 2 != 0) for every flags word, whatever the session's handle and
\* whatever open()/close() calls came before.
C16_FlagBits ==
    /\ Did("is_open")
         => (last.res = "Ok" /\ last.flag = (last.before.Flags % 2 = 1)
             /\ last.after = last.before)
    /\ Did("is_high_speed")
         => (last.res = "Ok" /\ last.flag = ((last.before.Flags \div 2) % 2 = 1)
             /\ last.after = last.before)

\* is_open() answered false on a session that holds a handle: the flags
\* word is large, with bit 0 clear.
C16_Witness ==
    /\ Did("is_open")
    /\ last.before.ftHandle # NULL
    /\ last.before.Flags = 2147483646
    /\ last.flag = FALSE

====
